---- MODULE Spec2Model ----
(***************************************************************************)
(* The sync-response reducer and event dispatcher of gomatrix              *)
(* (src/sync.go): DefaultSyncer.ProcessResponse, shouldProcessResponse,    *)
(* getOrCreateRoom, notifyListeners, OnEventType and OnFailedSync, driven  *)
(* by a caller that hands over one /sync response at a time; the in-memory *)
(* next_batch and filter stores; and the poll loop that ties them together.*)
(***************************************************************************)
EXTENDS Integers, Sequences, FiniteSets, TLC

---------------------------------------------------------------------------
(* Bounds of the model *)

\* longest state or timeline list of one room in a response
MaxLen == 2
\* most events in one response, all lists together
MaxEvents == 2
\* most listener registrations made through OnEventType
MaxRegs == 2

---------------------------------------------------------------------------
(* Values *)

\* DefaultSyncer.UserID, fixed at construction
UserID == "@bot:example.org"

RoomA == "!a:example.org"
RoomB == "!b:example.org"
RoomIDs == {RoomA, RoomB}

\* the since values a caller passes; "" is the first sync
Sinces == {"", "s1"}

\* the callbacks an application registers
Callbacks == {"cb1", "cb2"}

\* the event types an application registers callbacks for
ListenTypes == {"m.room.member", "m.room.name"}

\* Event.Content values: interface{} holding nothing, a string or a number
JNil == <<"nil", "">>
JStr(s) == <<"string", s>>
JNum(s) == <<"number", s>>

\* an Event as decoded from the wire: RoomID is not set
WireEvent(type, stateKey, membership, name) ==
    [Type |-> type, StateKey |-> stateKey, RoomID |-> "",
     Content |-> [membership |-> membership, name |-> name]]

SelfJoin == WireEvent("m.room.member", UserID, JStr("join"), JNil)
SelfLeave == WireEvent("m.room.member", UserID, JStr("leave"), JNil)
SelfOdd == WireEvent("m.room.member", UserID, JNum("1"), JNil)
SelfBare == WireEvent("m.room.member", UserID, JNil, JNil)
NameA == WireEvent("m.room.name", "", JNil, JStr("A"))
NameB == WireEvent("m.room.name", "", JNil, JStr("B"))
Message == WireEvent("m.room.message", "", JNil, JNil)

\* events a state list may carry, and events a timeline may carry
StateEvents == {NameA, NameB, SelfJoin}
TimelineEvents == {SelfJoin, SelfLeave, SelfOdd, SelfBare, Message}

Min(a, b) == IF a < b THEN a ELSE b

SeqsOfLen(S, n) == [1..n -> S]

SeqsUpTo(S, n) == UNION {SeqsOfLen(S, k) : k \in 0..n}

\* the maps with keys among K and values in V
PartialFns(K, V) == UNION {[D -> V] : D \in SUBSET K}

\* RespSync.Rooms.Join[r]: State.Events and Timeline.Events
JoinData(budget) ==
    UNION {{[State |-> s, Timeline |-> t] :
              s \in SeqsOfLen(StateEvents, n),
              t \in SeqsUpTo(TimelineEvents, Min(MaxLen, budget - n))} :
           n \in 0..Min(MaxLen, budget)}

\* RespSync.Rooms.Invite[r]: State.Events
InviteData(budget) ==
    {[State |-> s] : s \in SeqsUpTo(StateEvents, Min(MaxLen, budget))}

RECURSIVE SumLen(_)
SumLen(ss) == IF ss = <<>> THEN 0 ELSE Len(Head(ss)) + SumLen(Tail(ss))

RECURSIVE SetToSeq(_)
SetToSeq(S) ==
    IF S = {} THEN <<>>
    ELSE LET x == CHOOSE y \in S : TRUE IN <<x>> \o SetToSeq(S \ {x})

\* number of events a response carries
EventCount(rooms) ==
    LET js == SetToSeq(DOMAIN rooms.Join)
        is == SetToSeq(DOMAIN rooms.Invite)
    IN  SumLen([i \in 1..Len(js) |-> rooms.Join[js[i]].State])
        + SumLen([i \in 1..Len(js) |-> rooms.Join[js[i]].Timeline])
        + SumLen([i \in 1..Len(is) |-> rooms.Invite[is[i]].State])

\* RespSync.Rooms of the responses that name the rooms of ids and carry at
\* most MaxEvents events
RoomsOfResponses(ids) ==
    {r \in {[Join |-> j, Invite |-> i] :
              j \in PartialFns(ids, JoinData(MaxEvents)),
              i \in PartialFns(ids, InviteData(MaxEvents))} :
        EventCount(r) <= MaxEvents}

NoRooms == [Join |-> <<>>, Invite |-> <<>>]

\* a *RespSync: nil, or a response with its rooms
NilResp == [isNil |-> TRUE, Rooms |-> NoRooms]
Responses == {[isNil |-> FALSE, Rooms |-> r] : r \in RoomsOfResponses({RoomA})}

\* an error value: nil, or the error ProcessResponse builds on a panic
NoError == [isNil |-> TRUE, userID |-> "", since |-> ""]

---------------------------------------------------------------------------
(* State *)

VARIABLES
    Rooms,        \* DefaultSyncer.Rooms: room id -> Room
    listeners,    \* DefaultSyncer.listeners: event type -> callbacks
    perIteration, \* whether the build gives a range loop one variable per iteration
    phase,        \* where the caller is
    res,          \* the response object handed to ProcessResponse
    sent,         \* the response as the server sent it
    since,        \* the since value handed to ProcessResponse
    before,       \* Rooms when ProcessResponse was called
    calls,        \* listener invocations made by the call, in order
    err,          \* the error the call returned
    wait,         \* seconds OnFailedSync told the caller to wait
    policyErr,    \* the terminal error OnFailedSync returned
    NextBatchStore, \* DefaultSyncer.NextBatchStore: an InMemoryNextBatchStore
    FilterStore,  \* DefaultSyncer.FilterStore: an InMemoryFilterStore
    saves,        \* the saves made to the two stores, in order
    loaded,       \* what the last load from a store returned
    reduced       \* the since values of the responses the caller had reduced

\* the stores and what the callers of the stores hold
stores == <<NextBatchStore, FilterStore, saves, loaded, reduced>>

\* the syncer and what its caller holds
syncer == <<Rooms, listeners, perIteration, phase, res, sent, since, before,
            calls, err, wait, policyErr>>

vars == <<Rooms, listeners, perIteration, phase, res, sent, since, before,
          calls, err, wait, policyErr, stores>>

---------------------------------------------------------------------------
(* The reducer, as a machine m that runs inside one ProcessResponse call:   *)
(* m.Rooms and m.listeners are the syncer's maps, m.calls the listener      *)
(* invocations so far, m.panicked whether a panic is unwinding the call,    *)
(* m.panicAt which listener invocation panics (0: none), m.event the value  *)
(* of the range loop's variable and m.alias the State entries that point    *)
(* to that variable.                                                        *)

Machine(rooms, ls, panicAt, perIter) ==
    [Rooms |-> rooms, listeners |-> ls, calls |-> <<>>, panicked |-> FALSE,
     panicAt |-> panicAt, perIteration |-> perIter,
     event |-> Message, alias |-> {}]

\* NewRoom(roomID): a room with no state
NewRoom(roomID) == [ID |-> roomID, State |-> <<>>]

\* Room.UpdateState(&event): State[(Type, StateKey)] points to the event
UpdateState(m, roomID, event) ==
    LET key == <<event.Type, event.StateKey>>
        room == m.Rooms[roomID]
    IN  [m EXCEPT !.Rooms[roomID] = [room EXCEPT !.State = (key :> event) @@ room.State],
                  !.alias = m.alias \cup {<<roomID, key>>}]

\* as getOrCreateRoom, but a room that is known is replaced by a new one
createRoom(m, roomID) ==
    [m EXCEPT !.Rooms = (roomID :> NewRoom(roomID)) @@ m.Rooms]

getOrCreateRoom(m, roomID) ==
    IF roomID \in DOMAIN m.Rooms THEN m
    ELSE [m EXCEPT !.Rooms = (roomID :> NewRoom(roomID)) @@ m.Rooms]

\* fn(event): the callback runs, finds the syncer's Rooms as they are at that
\* moment, and panics if it is the one chosen to
invoke(m, fn, event) ==
    LET panics == (Len(m.calls) + 1 = m.panicAt)
    IN  [m EXCEPT !.calls = Append(m.calls, [fn |-> fn, event |-> event,
                                              panicked |-> panics,
                                              table |-> m.Rooms]),
                  !.panicked = panics]

\* as notifyFrom, but a callback registered twice is invoked once
RECURSIVE notifyEachOnce(_, _, _, _)
notifyEachOnce(m, fns, event, i) ==
    IF i > Len(fns) \/ m.panicked THEN m
    ELSE IF \E j \in 1..(i - 1) : fns[j] = fns[i]
    THEN notifyEachOnce(m, fns, event, i + 1)
    ELSE notifyEachOnce(invoke(m, fns[i], event), fns, event, i + 1)

\* the loop over the listeners of one type, from index i
RECURSIVE notifyFrom(_, _, _, _)
notifyFrom(m, fns, event, i) ==
    IF i > Len(fns) \/ m.panicked THEN m
    ELSE notifyFrom(invoke(m, fns[i], event), fns, event, i + 1)

\* as notifyListeners, but a type without listeners is a fault
notifyOrPanic(m, event) ==
    IF event.Type \notin DOMAIN m.listeners THEN [m EXCEPT !.panicked = TRUE]
    ELSE notifyFrom(m, m.listeners[event.Type], event, 1)

notifyListeners(m, event) ==
    IF event.Type \notin DOMAIN m.listeners THEN m
    ELSE notifyFrom(m, m.listeners[event.Type], event, 1)

\* "for _, event := range events" takes the next element and
\* "event.RoomID = roomID" stamps it. With one variable per loop, the State
\* entries that point to the variable see the new value.
rangeNext(m, roomID, wire, first) ==
    LET event == [wire EXCEPT !.RoomID = roomID]
        seen == [r \in DOMAIN m.Rooms |->
                   [m.Rooms[r] EXCEPT !.State =
                      [k \in DOMAIN m.Rooms[r].State |->
                         IF <<r, k>> \in m.alias THEN event
                         ELSE m.Rooms[r].State[k]]]]
    IN  IF first \/ m.perIteration
        THEN [m EXCEPT !.event = event, !.alias = {}]
        ELSE [m EXCEPT !.event = event, !.Rooms = seen]

\* as stateLoop, but an event is dispatched before it is merged
RECURSIVE stateLoopNotifyFirst(_, _, _, _)
stateLoopNotifyFirst(m, roomID, events, i) ==
    IF i > Len(events) \/ m.panicked THEN m
    ELSE LET m1 == rangeNext(m, roomID, events[i], i = 1)
             m2 == notifyListeners(m1, m1.event)
             m3 == IF m2.panicked THEN m2 ELSE UpdateState(m2, roomID, m2.event)
         IN  stateLoopNotifyFirst(m3, roomID, events, i + 1)

\* the loop over roomData.State.Events, from index i
RECURSIVE stateLoop(_, _, _, _)
stateLoop(m, roomID, events, i) ==
    IF i > Len(events) \/ m.panicked THEN m
    ELSE LET m1 == rangeNext(m, roomID, events[i], i = 1)
             m2 == UpdateState(m1, roomID, m1.event)
             m3 == notifyListeners(m2, m2.event)
         IN  stateLoop(m3, roomID, events, i + 1)

\* as timelineLoop, but every event is merged into State too
RECURSIVE timelineLoopMerging(_, _, _, _)
timelineLoopMerging(m, roomID, events, i) ==
    IF i > Len(events) \/ m.panicked THEN m
    ELSE LET m1 == rangeNext(m, roomID, events[i], i = 1)
             m2 == UpdateState(m1, roomID, m1.event)
             m3 == notifyListeners(m2, m2.event)
         IN  timelineLoopMerging(m3, roomID, events, i + 1)

\* the loop over roomData.Timeline.Events, from index i
RECURSIVE timelineLoop(_, _, _, _)
timelineLoop(m, roomID, events, i) ==
    IF i > Len(events) \/ m.panicked THEN m
    ELSE LET m1 == rangeNext(m, roomID, events[i], i = 1)
             m2 == notifyListeners(m1, m1.event)
         IN  timelineLoop(m2, roomID, events, i + 1)

\* as processJoined, but the timeline is dispatched before the state
processTimelineFirst(m, roomID, roomData) ==
    LET m1 == getOrCreateRoom(m, roomID)
        m2 == timelineLoop(m1, roomID, roomData.Timeline, 1)
    IN  stateLoop(m2, roomID, roomData.State, 1)

processJoined(m, roomID, roomData) ==
    LET m1 == getOrCreateRoom(m, roomID)
        m2 == stateLoop(m1, roomID, roomData.State, 1)
    IN  timelineLoop(m2, roomID, roomData.Timeline, 1)

processInvited(m, roomID, roomData) ==
    stateLoop(getOrCreateRoom(m, roomID), roomID, roomData.State, 1)

\* "for roomID, roomData := range res.Rooms.Join", visiting the keys in order
RECURSIVE joinLoop(_, _, _, _)
joinLoop(m, join, order, i) ==
    IF i > Len(order) \/ m.panicked THEN m
    ELSE joinLoop(processJoined(m, order[i], join[order[i]]), join, order, i + 1)

\* "for roomID, roomData := range res.Rooms.Invite", visiting the keys in order
RECURSIVE inviteLoop(_, _, _, _)
inviteLoop(m, invite, order, i) ==
    IF i > Len(order) \/ m.panicked THEN m
    ELSE inviteLoop(processInvited(m, order[i], invite[order[i]]), invite, order, i + 1)

\* as reduce, but a panic puts Rooms back to what it was at the call
reduceOrRollBack(m, rooms, joinOrder, inviteOrder) ==
    LET done == inviteLoop(joinLoop(m, rooms.Join, joinOrder, 1),
                           rooms.Invite, inviteOrder, 1)
    IN  IF done.panicked THEN [done EXCEPT !.Rooms = m.Rooms] ELSE done

\* the body of ProcessResponse after the filter
reduce(m, rooms, joinOrder, inviteOrder) ==
    inviteLoop(joinLoop(m, rooms.Join, joinOrder, 1), rooms.Invite, inviteOrder, 1)

---------------------------------------------------------------------------
(* The replay filter *)

IsSelfMember(e) == e.Type = "m.room.member" /\ e.StateKey = UserID

\* as scanTimeline, but the first self-membership event found ends the scan
RECURSIVE scanStopsAtFirst(_, _)
scanStopsAtFirst(events, i) ==
    IF i < 1 THEN FALSE
    ELSE IF IsSelfMember(events[i])
    THEN events[i].Content.membership = <<"string", "join">>
    ELSE scanStopsAtFirst(events, i - 1)

\* as scanTimeline, but a membership that is no string counts as "join"
RECURSIVE scanOddIsJoin(_, _)
scanOddIsJoin(events, i) ==
    IF i < 1 THEN FALSE
    ELSE IF IsSelfMember(events[i])
              /\ (events[i].Content.membership[1] # "string"
                    \/ events[i].Content.membership[2] = "join")
    THEN TRUE
    ELSE scanOddIsJoin(events, i - 1)

\* the backward scan of one timeline from index i: TRUE when it reaches the
\* delete of the room
RECURSIVE scanTimeline(_, _)
scanTimeline(events, i) ==
    IF i < 1 THEN FALSE
    ELSE LET e == events[i]
             m == e.Content.membership
         IN  IF IsSelfMember(e)
             THEN IF m[1] # "string" THEN scanTimeline(events, i - 1)
                  ELSE IF m[2] = "join" THEN TRUE
                  ELSE scanTimeline(events, i - 1)
             ELSE scanTimeline(events, i - 1)

\* as deleted, but a self join in a state list, of a joined or an invited
\* room, removes the room too
deletedByStateToo(rooms) ==
    {r \in DOMAIN rooms.Join :
        \/ scanTimeline(rooms.Join[r].Timeline, Len(rooms.Join[r].Timeline))
        \/ scanTimeline(rooms.Join[r].State, Len(rooms.Join[r].State))}
    \cup {r \in DOMAIN rooms.Invite :
            scanTimeline(rooms.Invite[r].State, Len(rooms.Invite[r].State))}

\* as deleted, but once a room is deleted every room of the response is
deletedWithTheRest(rooms) ==
    IF \E r \in DOMAIN rooms.Join :
          scanTimeline(rooms.Join[r].Timeline, Len(rooms.Join[r].Timeline))
    THEN DOMAIN rooms.Join \cup DOMAIN rooms.Invite
    ELSE {}

\* the rooms the filter deletes from the response
deleted(rooms) ==
    {r \in DOMAIN rooms.Join :
        scanTimeline(rooms.Join[r].Timeline, Len(rooms.Join[r].Timeline))}

Restrict(f, D) == [x \in DOMAIN f \cap D |-> f[x]]

\* as filtered, but the room stays among the invited rooms
filteredJoinOnly(rooms) ==
    [Join |-> Restrict(rooms.Join, DOMAIN rooms.Join \ deleted(rooms)),
     Invite |-> rooms.Invite]

\* resp.Rooms once shouldProcessResponse has returned true
filtered(rooms) ==
    [Join |-> Restrict(rooms.Join, DOMAIN rooms.Join \ deleted(rooms)),
     Invite |-> Restrict(rooms.Invite, DOMAIN rooms.Invite \ deleted(rooms))]

\* as shouldProcessResponse, but the first sync is processed too
processesFirstSync(resp, s) == TRUE

\* the value shouldProcessResponse returns
shouldProcessResponse(resp, s) == s # ""

\* shouldProcessResponse reads resp.Rooms of a nil resp
nilDereference(resp, s) == s # "" /\ resp.isNil

\* the orders in which a range over a map with keys S may visit them
Orders(S) ==
    {o \in [1..Cardinality(S) -> S] : \A i, j \in DOMAIN o : o[i] = o[j] => i = j}

\* as PanicError, but the error does not say which cursor was used
PanicErrorBare(userID, s) == [isNil |-> FALSE, userID |-> userID, since |-> ""]

\* the error the deferred recover builds
PanicError(userID, s) == [isNil |-> FALSE, userID |-> userID, since |-> s]

---------------------------------------------------------------------------
(* The stores *)

\* most saves made to the stores in one run
MaxSaves == 3

\* another account that shares the stores
OtherUserID == "@alice:example.org"
UserIDs == {UserID, OtherUserID}

\* next_batch tokens the accounts save
Tokens == {"s1", "s2"}

\* filter ids and filter definitions
FilterIDs == {"f1", "f2"}
FilterJSONs == {"{}", "{\"room\":{}}"}

\* no load has been made
NoLoad == [fn |-> "", userID |-> "", value |-> ""]

\* a Go map[string]string read at a key: the zero value "" when absent
MapGet(m, key) == IF key \in DOMAIN m THEN m[key] ELSE ""

\* a Go map written at a key
MapSet(m, key, value) == (key :> value) @@ m

\* as SaveNextBatch, but the token is saved for every user of the store
SaveNextBatchForAll(s, userID, nextBatch) ==
    [s EXCEPT !.UserToNextBatch =
        [u \in DOMAIN s.UserToNextBatch \cup {userID} |-> nextBatch]]

\* as SaveNextBatch, but the token is not kept
SaveNextBatchDropped(s, userID, nextBatch) == s

\* InMemoryNextBatchStore.SaveNextBatch: the store afterwards
SaveNextBatch(s, userID, nextBatch) ==
    [s EXCEPT !.UserToNextBatch = MapSet(s.UserToNextBatch, userID, nextBatch)]

\* InMemoryNextBatchStore.LoadNextBatch: the value returned
LoadNextBatch(s, userID) == MapGet(s.UserToNextBatch, userID)

\* InMemoryFilterStore.SaveFilter: the store afterwards
SaveFilter(s, userID, filterID) ==
    [s EXCEPT !.UserToFilter = MapSet(s.UserToFilter, userID, filterID)]

\* InMemoryFilterStore.LoadFilter: the value returned
LoadFilter(s, userID) == MapGet(s.UserToFilter, userID)

\* InMemoryFilterStore.GetFilterJSON: the value returned
GetFilterJSON(s, userID) == s.Filter

---------------------------------------------------------------------------
(* Operations *)

\* NewDefaultSyncer(userID, nextBatch, filterStore), before any call
InitSyncer ==
    /\ Rooms = <<>>
    /\ listeners = <<>>
    /\ perIteration \in BOOLEAN
    /\ phase = "idle"
    /\ res = NilResp
    /\ sent = NilResp
    /\ since = ""
    /\ before = <<>>
    /\ calls = <<>>
    /\ err = NoError
    /\ wait = 0
    /\ policyErr = NoError

\* the two stores as the application builds them: empty maps, and the filter
\* definition filter
InitStores(filter) ==
    /\ NextBatchStore = [UserToNextBatch |-> <<>>]
    /\ FilterStore = [Filter |-> filter, UserToFilter |-> <<>>]
    /\ saves = <<>>
    /\ loaded = NoLoad
    /\ reduced = {}

Init == InitSyncer /\ InitStores("{}")

\* the number of registrations the registry holds
RECURSIVE Registrations(_)
Registrations(ls) ==
    IF DOMAIN ls = {} THEN 0
    ELSE LET t == CHOOSE x \in DOMAIN ls : TRUE
         IN  Len(ls[t]) + Registrations(Restrict(ls, DOMAIN ls \ {t}))

\* the registry after OnEventType(eventType, callback)
registered(ls, eventType, callback) ==
    LET made == IF eventType \in DOMAIN ls THEN ls ELSE (eventType :> <<>>) @@ ls
    IN  [made EXCEPT ![eventType] = Append(made[eventType], callback)]

OnEventType(eventType, callback) ==
    /\ phase = "idle"
    /\ Registrations(listeners) < MaxRegs
    /\ listeners' = registered(listeners, eventType, callback)
    /\ UNCHANGED <<Rooms, perIteration, phase, res, sent, since, before,
                   calls, err, wait, policyErr>>
    /\ UNCHANGED stores

\* ProcessResponse(resp, s), from the call to its return: the caller has the
\* response resp to the request it made with since = s
ProcessResponse(resp, s) ==
    /\ phase = "idle"
    /\ sent' = resp
    /\ since' = s
    /\ before' = Rooms
    /\ IF nilDereference(resp, s)
       THEN /\ phase' = "crashed"
            /\ res' = resp
            /\ UNCHANGED <<Rooms, calls, err>>
       ELSE IF ~shouldProcessResponse(resp, s)
       THEN /\ phase' = "returned"
            /\ res' = resp
            /\ UNCHANGED <<Rooms, calls, err>>
       ELSE LET rooms == filtered(resp.Rooms)
            IN  \E joinOrder \in Orders(DOMAIN rooms.Join),
                   inviteOrder \in Orders(DOMAIN rooms.Invite) :
                  \E panicAt \in 0..Len(reduce(Machine(Rooms, listeners, 0, perIteration),
                                               rooms, joinOrder, inviteOrder).calls) :
                      LET m == reduce(Machine(Rooms, listeners, panicAt, perIteration),
                                      rooms, joinOrder, inviteOrder)
                      IN  /\ phase' = "returned"
                          /\ res' = [resp EXCEPT !.Rooms = rooms]
                          /\ Rooms' = m.Rooms
                          /\ calls' = m.calls
                          /\ err' = IF m.panicked THEN PanicError(UserID, s) ELSE NoError
    /\ UNCHANGED <<listeners, perIteration, wait, policyErr>>
    /\ UNCHANGED stores

\* the caller takes the result: it goes on after nil and stops for good after
\* an error
Returned ==
    /\ phase = "returned"
    /\ phase' = IF err.isNil THEN "idle" ELSE "stopped"
    /\ res' = NilResp
    /\ sent' = NilResp
    /\ since' = ""
    /\ before' = <<>>
    /\ calls' = <<>>
    /\ err' = NoError
    /\ UNCHANGED <<Rooms, listeners, perIteration, wait, policyErr>>
    /\ UNCHANGED stores

\* the caller's request fails
FetchFailed ==
    /\ phase = "idle"
    /\ phase' = "failed"
    /\ UNCHANGED <<Rooms, listeners, perIteration, res, sent, since, before,
                   calls, err, wait, policyErr>>
    /\ UNCHANGED stores

\* the errors a failed request may come with
FetchErrors == {[isNil |-> FALSE, userID |-> "", since |-> s] : s \in Sinces}

\* the responses a failed request may come with: none, or an empty one
FailedResponses == {NilResp, [isNil |-> FALSE, Rooms |-> NoRooms]}

\* as failedSyncResult, but the failure is handed back as terminal
failedSyncGivesUp(resp, e) == [wait |-> 0, err |-> e]

\* the pair OnFailedSync(res, err) returns
failedSyncResult(resp, e) == [wait |-> 10, err |-> NoError]

OnFailedSync(resp, e) ==
    /\ phase = "failed"
    /\ phase' = "backoff"
    /\ wait' = failedSyncResult(resp, e).wait
    /\ policyErr' = failedSyncResult(resp, e).err
    /\ UNCHANGED <<Rooms, listeners, perIteration, res, sent, since, before,
                   calls, err>>
    /\ UNCHANGED stores

\* the caller sleeps for the wait and asks again, or stops on a terminal error
Retry ==
    /\ phase = "backoff"
    /\ phase' = IF policyErr.isNil THEN "idle" ELSE "stopped"
    /\ wait' = 0
    /\ policyErr' = NoError
    /\ UNCHANGED <<Rooms, listeners, perIteration, res, sent, since, before,
                   calls, err>>
    /\ UNCHANGED stores

Next ==
    \/ \E t \in ListenTypes, cb \in Callbacks : OnEventType(t, cb)
    \/ \E resp \in Responses \cup {NilResp}, s \in Sinces : ProcessResponse(resp, s)
    \/ Returned
    \/ FetchFailed
    \/ \E resp \in FailedResponses, e \in FetchErrors : OnFailedSync(resp, e)
    \/ Retry

Spec == Init /\ [][Next]_vars

---------------------------------------------------------------------------
(* The stores, used by the accounts that share them *)

\* SaveNextBatch(userID, nextBatch) is called
CallSaveNextBatch(userID, nextBatch) ==
    /\ Len(saves) < MaxSaves
    /\ NextBatchStore' = SaveNextBatch(NextBatchStore, userID, nextBatch)
    /\ saves' = Append(saves, [fn |-> "SaveNextBatch", userID |-> userID,
                                value |-> nextBatch])
    /\ UNCHANGED <<FilterStore, loaded, reduced, syncer>>

\* LoadNextBatch(userID) is called
CallLoadNextBatch(userID) ==
    /\ loaded' = [fn |-> "LoadNextBatch", userID |-> userID,
                  value |-> LoadNextBatch(NextBatchStore, userID)]
    /\ UNCHANGED <<NextBatchStore, FilterStore, saves, reduced, syncer>>

\* SaveFilter(userID, filterID) is called
CallSaveFilter(userID, filterID) ==
    /\ Len(saves) < MaxSaves
    /\ FilterStore' = SaveFilter(FilterStore, userID, filterID)
    /\ saves' = Append(saves, [fn |-> "SaveFilter", userID |-> userID,
                                value |-> filterID])
    /\ UNCHANGED <<NextBatchStore, loaded, reduced, syncer>>

\* LoadFilter(userID) is called
CallLoadFilter(userID) ==
    /\ loaded' = [fn |-> "LoadFilter", userID |-> userID,
                  value |-> LoadFilter(FilterStore, userID)]
    /\ UNCHANGED <<NextBatchStore, FilterStore, saves, reduced, syncer>>

\* GetFilterJSON(userID) is called
CallGetFilterJSON(userID) ==
    /\ loaded' = [fn |-> "GetFilterJSON", userID |-> userID,
                  value |-> GetFilterJSON(FilterStore, userID)]
    /\ UNCHANGED <<NextBatchStore, FilterStore, saves, reduced, syncer>>

StoreInit == InitSyncer /\ \E filter \in FilterJSONs : InitStores(filter)

StoreNext ==
    \/ \E u \in UserIDs, nb \in Tokens : CallSaveNextBatch(u, nb)
    \/ \E u \in UserIDs : CallLoadNextBatch(u)
    \/ \E u \in UserIDs, f \in FilterIDs : CallSaveFilter(u, f)
    \/ \E u \in UserIDs : CallLoadFilter(u)
    \/ \E u \in UserIDs : CallGetFilterJSON(u)

StoreSpec == StoreInit /\ [][StoreNext]_vars

---------------------------------------------------------------------------
(* The poll loop: fetch with the saved token, reduce, save the new token *)

\* most responses the server hands out in one run
MaxSyncs == 3

\* the n-th next_batch token of the server; the request that leads to it is
\* made with the token before it, the first one with ""
Cursor(n) == IF n = 0 THEN "" ELSE "s" \o ToString(n)

\* the place of a token in the server's order
CursorIndex(c) == CHOOSE n \in 0..(MaxSyncs + 1) : Cursor(n) = c

\* the rooms of the responses the server hands out
SyncRooms ==
    {NoRooms,
     [Join |-> (RoomA :> [State |-> <<NameA>>, Timeline |-> <<Message>>]),
      Invite |-> <<>>],
     [Join |-> <<>>, Invite |-> (RoomA :> [State |-> <<SelfJoin>>])]}

\* the response to a request made with the token c
SyncResponse(rooms, c) ==
    [isNil |-> FALSE, Rooms |-> rooms, NextBatch |-> Cursor(CursorIndex(c) + 1)]

\* the request made with the saved token succeeds and its response is handed
\* to ProcessResponse together with that token
Fetched(rooms) ==
    LET c == LoadNextBatch(NextBatchStore, UserID)
    IN  /\ CursorIndex(c) < MaxSyncs
        /\ ProcessResponse(SyncResponse(rooms, c), c)

\* ProcessResponse returned nil: the token of the response is saved and the
\* loop goes on
Persist ==
    /\ phase = "returned"
    /\ err.isNil
    /\ NextBatchStore' = SaveNextBatch(NextBatchStore, UserID, sent.NextBatch)
    /\ saves' = Append(saves, [fn |-> "SaveNextBatch", userID |-> UserID,
                                value |-> sent.NextBatch])
    /\ reduced' = reduced \cup {since}
    /\ phase' = "idle"
    /\ res' = NilResp
    /\ sent' = NilResp
    /\ since' = ""
    /\ before' = <<>>
    /\ calls' = <<>>
    /\ UNCHANGED <<Rooms, listeners, perIteration, err, wait, policyErr,
                   FilterStore, loaded>>

\* ProcessResponse returned an error: the loop ends
Stop ==
    /\ ~err.isNil
    /\ Returned

SyncNext ==
    \/ \E t \in ListenTypes, cb \in Callbacks : OnEventType(t, cb)
    \/ \E rooms \in SyncRooms : Fetched(rooms)
    \/ Persist
    \/ Stop
    \/ FetchFailed
    \/ \E resp \in FailedResponses, e \in FetchErrors : OnFailedSync(resp, e)
    \/ Retry

SyncSpec == Init /\ [][SyncNext]_vars

---------------------------------------------------------------------------
(* Responses that name two rooms, with lists of at most one event *)

\* what a response may carry for one joined room and for one invited room
JoinDataOfTwo ==
    {[State |-> s, Timeline |-> tl] :
        s \in {<<>>, <<NameA>>}, tl \in {<<>>, <<SelfJoin>>, <<NameB>>}}

InviteDataOfTwo == {[State |-> s] : s \in {<<>>, <<NameA>>}}

ResponsesOfTwo ==
    {[isNil |-> FALSE, Rooms |-> [Join |-> j, Invite |-> i]] :
        j \in PartialFns(RoomIDs, JoinDataOfTwo),
        i \in PartialFns(RoomIDs, InviteDataOfTwo)}

NextOfTwo ==
    \/ OnEventType("m.room.name", "cb1")
    \/ \E resp \in ResponsesOfTwo, s \in Sinces : ProcessResponse(resp, s)
    \/ Returned

SpecOfTwo == Init /\ [][NextOfTwo]_vars

---------------------------------------------------------------------------
(* What the properties speak about *)

\* a call of ProcessResponse has returned to the caller
HasReturned == phase = "returned"

\* a call of ProcessResponse has returned and was not the first sync
HasReduced == phase = "returned" /\ since # ""

Stamp(e, roomID) == [e EXCEPT !.RoomID = roomID]

KeyOf(e) == <<e.Type, e.StateKey>>

\* the callbacks registered for a type, none when the type is unknown
ListenersFor(type) == IF type \in DOMAIN listeners THEN listeners[type] ELSE <<>>

\* the calls made for events of one room
CallsOf(roomID) == SelectSeq(calls, LAMBDA c : c.event.RoomID = roomID)

\* room r is as it was before the call: absent, or the same Room
Untouched(r) ==
    /\ (r \in DOMAIN Rooms) = (r \in DOMAIN before)
    /\ r \in DOMAIN before => Rooms[r] = before[r]

\* the most recent self-membership event of a timeline says "join"
LatestSelfMembershipIsJoin(timeline) ==
    \E i \in DOMAIN timeline :
        /\ IsSelfMember(timeline[i])
        /\ timeline[i].Content.membership = JStr("join")
        /\ \A j \in DOMAIN timeline : j > i => ~IsSelfMember(timeline[j])

\* some self-membership event of a timeline says "join"
SomeSelfMembershipIsJoin(timeline) ==
    \E i \in DOMAIN timeline :
        /\ IsSelfMember(timeline[i])
        /\ timeline[i].Content.membership = JStr("join")

\* the response named at least one event whose type has a listener
SentHeardEvent ==
    \E r \in DOMAIN sent.Rooms.Join :
        \E i \in DOMAIN sent.Rooms.Join[r].State :
            sent.Rooms.Join[r].State[i].Type \in DOMAIN listeners

---------------------------------------------------------------------------
(* C1 *)

\* C1: a call with since = "" returns nil, leaves Rooms as it was and invokes
\* no listener, whatever the response, the rooms known and the listeners are.
FirstSyncIsDiscarded ==
    (phase \in {"returned", "crashed"} /\ since = "") =>
        /\ phase = "returned"
        /\ err = NoError
        /\ Rooms = before
        /\ calls = <<>>

\* a first-sync call has returned that carried a state event with a listener,
\* while rooms were known
FirstSyncWitness ==
    /\ HasReturned
    /\ since = ""
    /\ before # <<>>
    /\ SentHeardEvent

---------------------------------------------------------------------------
(* C2 *)

\* C2: after a call with since # "", a joined room whose most recent
\* self-membership event in the timeline says "join" has had no part in the
\* call: its Room is as before (none was created, nothing was merged) and no
\* listener was invoked for an event of it, from its joined or invited data.
SelfJoinedRoomIsSkipped ==
    (HasReduced /\ ~sent.isNil) =>
        \A r \in DOMAIN sent.Rooms.Join :
            LatestSelfMembershipIsJoin(sent.Rooms.Join[r].Timeline) =>
                /\ Untouched(r)
                /\ CallsOf(r) = <<>>

\* a call has returned for a room that was both joined, with a self join last
\* in its timeline, and invited, with a state event that has a listener
SelfJoinedRoomWitness ==
    /\ HasReduced
    /\ \E r \in DOMAIN sent.Rooms.Join \cap DOMAIN sent.Rooms.Invite :
          /\ LatestSelfMembershipIsJoin(sent.Rooms.Join[r].Timeline)
          /\ sent.Rooms.Invite[r].State # <<>>
          /\ sent.Rooms.Invite[r].State[1].Type \in DOMAIN listeners

---------------------------------------------------------------------------
(* C3 *)

\* the filter removed room r from the joined rooms of the response
Removed(r) == r \notin DOMAIN res.Rooms.Join

\* C3 as claimed: the most recent self-membership event alone decides, the
\* room is removed exactly when that event says "join".
FirstSelfMembershipDecides ==
    (HasReduced /\ ~sent.isNil) =>
        \A r \in DOMAIN sent.Rooms.Join :
            Removed(r) <=> LatestSelfMembershipIsJoin(sent.Rooms.Join[r].Timeline)

\* C3 as amended: the scan passes over self-membership events that do not say
\* "join"; the room is removed exactly when some self-membership event of
\* its timeline says "join", and then none of its events is processed.
AnySelfJoinDecides ==
    (HasReduced /\ ~sent.isNil) =>
        \A r \in DOMAIN sent.Rooms.Join :
            /\ Removed(r) <=> SomeSelfMembershipIsJoin(sent.Rooms.Join[r].Timeline)
            /\ Removed(r) => (Untouched(r) /\ CallsOf(r) = <<>>)

\* a call has returned for a room whose timeline was join, then leave, with a
\* listener for membership events
JoinThenLeaveWitness ==
    /\ HasReduced
    /\ "m.room.member" \in DOMAIN listeners
    /\ \E r \in DOMAIN sent.Rooms.Join :
          /\ sent.Rooms.Join[r].Timeline = <<SelfJoin, SelfLeave>>
          /\ Removed(r)

---------------------------------------------------------------------------
(* The events a call admits *)

RECURSIVE Concat(_)
Concat(ss) == IF ss = <<>> THEN <<>> ELSE Head(ss) \o Concat(Tail(ss))

Repeat(x, n) == [i \in 1..n |-> x]

IsPrefix(a, b) == Len(a) <= Len(b) /\ a = SubSeq(b, 1, Len(a))

StampAll(events, roomID, list) ==
    [i \in DOMAIN events |-> [list |-> list, event |-> Stamp(events[i], roomID)]]

\* the events of room r left in the response after the filter, in the order
\* of processing: state list, timeline, then the invited room's state list
Admitted(r) ==
    (IF r \in DOMAIN res.Rooms.Join
     THEN StampAll(res.Rooms.Join[r].State, r, "state")
          \o StampAll(res.Rooms.Join[r].Timeline, r, "timeline")
     ELSE <<>>)
    \o (IF r \in DOMAIN res.Rooms.Invite
        THEN StampAll(res.Rooms.Invite[r].State, r, "invite")
        ELSE <<>>)

AdmittedRooms == DOMAIN res.Rooms.Join \cup DOMAIN res.Rooms.Invite

Heard(e) == e.Type \in DOMAIN listeners

---------------------------------------------------------------------------
(* C4 *)

\* C4: after a call with since # "" that returned nil, the events dispatched
\* for a joined room that was not removed are its state events in list order,
\* then its timeline events in list order (then, when the room is invited
\* too, the invited state events), each once per listener of its type.
StateThenTimelineInListOrder ==
    (HasReduced /\ ~sent.isNil /\ err.isNil) =>
        \A r \in DOMAIN res.Rooms.Join :
            [i \in DOMAIN CallsOf(r) |-> CallsOf(r)[i].event]
              = Concat([i \in DOMAIN Admitted(r) |->
                          Repeat(Admitted(r)[i].event,
                                 Len(ListenersFor(Admitted(r)[i].event.Type)))])

\* a call has returned nil for a joined room with a state event and a
\* different timeline event, both dispatched
StateThenTimelineWitness ==
    /\ HasReduced
    /\ err.isNil
    /\ \E r \in DOMAIN res.Rooms.Join :
          /\ res.Rooms.Join[r].State # <<>>
          /\ res.Rooms.Join[r].Timeline # <<>>
          /\ res.Rooms.Join[r].State[1] # res.Rooms.Join[r].Timeline[1]
          /\ Heard(res.Rooms.Join[r].State[1])
          /\ Heard(res.Rooms.Join[r].Timeline[1])
          /\ Len(CallsOf(r)) >= 2

---------------------------------------------------------------------------
(* C5 *)

\* the state after merging events by value, from index i
RECURSIVE MergeAll(_, _, _)
MergeAll(state, events, i) ==
    IF i > Len(events) THEN state
    ELSE MergeAll((KeyOf(events[i].event) :> events[i].event) @@ state, events, i + 1)

StateBefore(r) == IF r \in DOMAIN before THEN before[r].State ELSE <<>>

\* C5: after a call with since # "" that returned nil, the State of every
\* room of the response holds, for each (type, state key), the last admitted
\* state-list event with that pair, and what it held before for the others.
LastWriteWins ==
    (HasReduced /\ ~sent.isNil /\ err.isNil) =>
        \A r \in AdmittedRooms :
            /\ r \in DOMAIN Rooms
            /\ Rooms[r].State
                 = MergeAll(StateBefore(r),
                            SelectSeq(Admitted(r), LAMBDA a : a.list # "timeline"), 1)

---------------------------------------------------------------------------
(* C6 *)

\* the callbacks invoked for an admitted event are the registered ones
InvokedAsRegistered ==
    (HasReduced /\ ~sent.isNil /\ err.isNil) =>
        /\ \A r \in AdmittedRooms :
              [i \in DOMAIN CallsOf(r) |-> CallsOf(r)[i].fn]
                = Concat([i \in DOMAIN Admitted(r) |->
                            ListenersFor(Admitted(r)[i].event.Type)])
        /\ \A i \in DOMAIN calls :
              \E j \in DOMAIN ListenersFor(calls[i].event.Type) :
                  ListenersFor(calls[i].event.Type)[j] = calls[i].fn

\* a step keeps every registration, in its place
OnlyAppends ==
    \A t \in DOMAIN listeners :
        t \in DOMAIN listeners' /\ IsPrefix(listeners[t], listeners'[t])

\* C6: for every admitted event the callbacks invoked are those registered
\* for its type, once per registration and in registration order, and none
\* registered for another type; no step removes or reorders a registration.
DispatchFollowsRegistry == []InvokedAsRegistered /\ [][OnlyAppends]_vars

\* a call has returned nil where a callback registered twice for one type was
\* invoked twice for one event, and an event of another type was admitted
DuplicateRegistrationWitness ==
    /\ HasReduced
    /\ err.isNil
    /\ \E t \in DOMAIN listeners, r \in AdmittedRooms :
          /\ Len(listeners[t]) = 2
          /\ listeners[t][1] = listeners[t][2]
          /\ Len(Admitted(r)) = 2
          /\ Admitted(r)[1].event.Type = t
          /\ Admitted(r)[2].event.Type # t
          /\ Len(calls) = 2

---------------------------------------------------------------------------
(* C7 *)

\* C7: an admitted event whose type has no listener invokes nothing and is no
\* fault: a call that admits only such events returns nil with no invocation;
\* in a call that returned nil every state-list event has its pair in State
\* and every event with listeners was dispatched, whatever preceded it.
UnheardEventIsNoFault ==
    (HasReduced /\ ~sent.isNil) =>
        /\ \A i \in DOMAIN calls : Heard(calls[i].event)
        /\ (\A r \in AdmittedRooms : \A i \in DOMAIN Admitted(r) :
                ~Heard(Admitted(r)[i].event))
             => (err.isNil /\ calls = <<>>)
        /\ err.isNil =>
              \A r \in AdmittedRooms : \A i \in DOMAIN Admitted(r) :
                  LET a == Admitted(r)[i]
                  IN  /\ a.list # "timeline" =>
                            (r \in DOMAIN Rooms /\ KeyOf(a.event) \in DOMAIN Rooms[r].State)
                      /\ Heard(a.event) =>
                            \E j \in DOMAIN calls : calls[j].event = a.event

\* a call has returned nil for a state list whose first event has no listener
\* and whose second has one
UnheardEventWitness ==
    /\ HasReduced
    /\ err.isNil
    /\ calls # <<>>
    /\ \E r \in DOMAIN res.Rooms.Join :
          /\ Len(res.Rooms.Join[r].State) = 2
          /\ ~Heard(res.Rooms.Join[r].State[1])
          /\ Heard(res.Rooms.Join[r].State[2])
          /\ KeyOf(res.Rooms.Join[r].State[1]) \in DOMAIN Rooms[r].State

---------------------------------------------------------------------------
(* C8 *)

\* the steps of a call that visits the joined rooms in joinOrder and the
\* invited rooms in inviteOrder: a room is looked up or created, then its
\* events are taken one by one
StepsOfRoom(r, events) ==
    <<[room |-> r, list |-> "room", event |-> Message]>>
    \o [i \in DOMAIN events |->
          [room |-> r, list |-> events[i].list, event |-> events[i].event]]

Steps(joinOrder, inviteOrder) ==
    Concat([i \in DOMAIN joinOrder |->
              StepsOfRoom(joinOrder[i],
                          StampAll(res.Rooms.Join[joinOrder[i]].State, joinOrder[i], "state")
                          \o StampAll(res.Rooms.Join[joinOrder[i]].Timeline,
                                      joinOrder[i], "timeline"))])
    \o Concat([i \in DOMAIN inviteOrder |->
                 StepsOfRoom(inviteOrder[i],
                             StampAll(res.Rooms.Invite[inviteOrder[i]].State,
                                      inviteOrder[i], "invite"))])

\* the invocations one step makes when no callback panics
CallsOfStep(step) ==
    IF step.list = "room" THEN <<>>
    ELSE [i \in DOMAIN ListenersFor(step.event.Type) |->
            [fn |-> ListenersFor(step.event.Type)[i], event |-> step.event]]

\* the pairs the first n steps merge into room r
MergedKeys(steps, n, r) ==
    {KeyOf(steps[j].event) :
        j \in {k \in 1..n : steps[k].room = r /\ steps[k].list \in {"state", "invite"}}}

\* the call went through n - 1 steps and stopped in step n, at a callback
StoppedIn(steps, n) ==
    /\ steps[n].list # "room"
    /\ \E k \in DOMAIN CallsOfStep(steps[n]) :
          [i \in DOMAIN calls |-> [fn |-> calls[i].fn, event |-> calls[i].event]]
            = Concat([j \in 1..(n - 1) |-> CallsOfStep(steps[j])])
              \o SubSeq(CallsOfStep(steps[n]), 1, k)
    /\ DOMAIN Rooms = DOMAIN before \cup {steps[j].room : j \in 1..n}
    /\ \A r \in DOMAIN Rooms :
          /\ DOMAIN Rooms[r].State = DOMAIN StateBefore(r) \cup MergedKeys(steps, n, r)
          /\ \A key \in DOMAIN StateBefore(r) \ MergedKeys(steps, n, r) :
                Rooms[r].State[key] = StateBefore(r)[key]

\* C8: a callback that panics during a call with since # "" does not take the
\* caller down: the call returns an error that carries UserID and since, the
\* panicking invocation is the last one, and nothing after the event it was
\* made for is merged or dispatched; a call that returns nil had no panic.
FaultStopsTheCall ==
    /\ phase = "crashed" => sent.isNil
    /\ HasReturned =>
          /\ \A i \in DOMAIN calls :
                calls[i].panicked <=> (~err.isNil /\ i = Len(calls))
          /\ ~err.isNil =>
                /\ since # ""
                /\ calls # <<>>
                /\ err.userID = UserID
                /\ err.since = since
                /\ \E joinOrder \in Orders(DOMAIN res.Rooms.Join),
                      inviteOrder \in Orders(DOMAIN res.Rooms.Invite) :
                      \E n \in DOMAIN Steps(joinOrder, inviteOrder) :
                          StoppedIn(Steps(joinOrder, inviteOrder), n)

\* a call has returned an error after the callback for the first of two state
\* events panicked, and the pair of the second is not in State
FaultWitness ==
    /\ HasReduced
    /\ ~err.isNil
    /\ \E r \in DOMAIN res.Rooms.Join :
          /\ Len(res.Rooms.Join[r].State) = 2
          /\ calls[Len(calls)].event = Stamp(res.Rooms.Join[r].State[1], r)
          /\ KeyOf(res.Rooms.Join[r].State[2]) \notin DOMAIN Rooms[r].State

---------------------------------------------------------------------------
(* C9 *)

\* C9: no fault raised inside ProcessResponse escapes it, the filter pass
\* over a nil response included: every call returns to the caller.
NoFaultEscapes == phase # "crashed"

---------------------------------------------------------------------------
(* C10 *)

\* the caller holds what OnFailedSync returned: ten seconds and no error
TenSecondsAndNoError ==
    phase = "backoff" => (wait = 10 /\ policyErr = NoError)

\* OnFailedSync changes nothing of the syncer, and the wait leads back to
\* asking
FailureLeadsBackToFetching ==
    /\ phase = "failed" =>
          (phase' = "backoff" /\ UNCHANGED <<Rooms, listeners, res, sent, since,
                                            before, calls, err>>)
    /\ phase = "backoff" => phase' = "idle"
    /\ phase' = "stopped" => ~err.isNil

\* C10: for every response and error OnFailedSync returns a wait of 10
\* seconds and no terminal error and changes no syncer state, so a failed
\* request leads back to asking and never to the stopped state.
DefaultPolicyNeverGivesUp ==
    []TenSecondsAndNoError /\ [][FailureLeadsBackToFetching]_vars

\* OnFailedSync has returned while rooms and listeners were known
FailedSyncWitness ==
    /\ phase = "backoff"
    /\ Rooms # <<>>
    /\ listeners # <<>>

---------------------------------------------------------------------------
(* C11 *)

\* the value of the most recent save fn made for userID among the first n
\* saves, "" when there is none
RECURSIVE LastSaved(_, _, _)
LastSaved(fn, userID, n) ==
    IF n = 0 THEN ""
    ELSE IF saves[n].fn = fn /\ saves[n].userID = userID THEN saves[n].value
    ELSE LastSaved(fn, userID, n - 1)

\* every load returns the most recent save for its user
LoadsTheLastSave ==
    \A u \in UserIDs :
        /\ LoadNextBatch(NextBatchStore, u) = LastSaved("SaveNextBatch", u, Len(saves))
        /\ LoadFilter(FilterStore, u) = LastSaved("SaveFilter", u, Len(saves))
        /\ GetFilterJSON(FilterStore, u) = GetFilterJSON(FilterStore, UserID)

\* a save for one user changes no load of another user, no save changes the
\* filter definition, and a load hands back what the store holds
SavesArePerUser ==
    /\ \A u \in UserIDs :
          /\ GetFilterJSON(FilterStore', u) = GetFilterJSON(FilterStore, u)
          /\ (saves' # saves /\ saves'[Len(saves')].userID # u) =>
                /\ LoadNextBatch(NextBatchStore', u) = LoadNextBatch(NextBatchStore, u)
                /\ LoadFilter(FilterStore', u) = LoadFilter(FilterStore, u)
    /\ loaded' # loaded =>
          /\ UNCHANGED <<NextBatchStore, FilterStore>>
          /\ loaded'.fn = "LoadNextBatch" =>
                loaded'.value = LastSaved("SaveNextBatch", loaded'.userID, Len(saves))
          /\ loaded'.fn = "LoadFilter" =>
                loaded'.value = LastSaved("SaveFilter", loaded'.userID, Len(saves))
          /\ loaded'.fn = "GetFilterJSON" => loaded'.value = FilterStore.Filter

\* C11: the stores are maps keyed by user: a load returns "" when nothing was
\* saved for the user and the most recent save for that user otherwise, a
\* save for one user changes nothing another user loads, and GetFilterJSON
\* returns the configured filter for every user, whatever was saved.
StoresArePerUserMaps == []LoadsTheLastSave /\ [][SavesArePerUser]_vars

\* a user saved two tokens with a save of another user in between, loaded
\* the second one, and the other user has no filter id
StoresWitness ==
    /\ Len(saves) = 3
    /\ saves[1].fn = "SaveNextBatch" /\ saves[1].userID = UserID
    /\ saves[2].fn = "SaveNextBatch" /\ saves[2].userID = OtherUserID
    /\ saves[3].fn = "SaveNextBatch" /\ saves[3].userID = UserID
    /\ saves[1].value # saves[3].value
    /\ saves[2].value # saves[3].value
    /\ loaded = [fn |-> "LoadNextBatch", userID |-> UserID, value |-> saves[3].value]
    /\ LoadFilter(FilterStore, OtherUserID) = ""

---------------------------------------------------------------------------
(* C12 *)

\* the token the loop would fetch with after a restart
Persisted == LoadNextBatch(NextBatchStore, UserID)

\* the saved token is never ahead of what was reduced: while a response is
\* held it is the token the response was fetched with, the responses to all
\* tokens before it were reduced, and no response is fetched with a token
\* whose response was reduced before
CursorFollowsReduce ==
    /\ reduced = {Cursor(n) : n \in 0..(CursorIndex(Persisted) - 1)}
    /\ phase = "returned" => (since = Persisted /\ since \notin reduced)

\* a token is saved only in the step that takes a nil result, and it is the
\* token of the response just reduced; an error ends the loop for good with
\* the saved token as it was, and OnFailedSync is not asked
SavesOnlyAfterNil ==
    /\ Persisted' # Persisted =>
          /\ phase = "returned"
          /\ err.isNil
          /\ Persisted' = Cursor(CursorIndex(since) + 1)
    /\ (phase = "returned" /\ ~err.isNil) =>
          (phase' = "stopped" /\ Persisted' = Persisted)
    /\ phase = "returned" => phase' \in {"idle", "stopped"}
    /\ phase' = "backoff" => phase = "failed"
    /\ phase # "stopped"

---------------------------------------------------------------------------
(* C13 *)

\* the call record c was made for an event of a state list, of a joined or
\* an invited room, that the filter left in the response
ForStateListEvent(c) ==
    \E i \in DOMAIN Admitted(c.event.RoomID) :
        /\ Admitted(c.event.RoomID)[i].list # "timeline"
        /\ Admitted(c.event.RoomID)[i].event = c.event

\* the callback of call record c found the event merged
FoundMerged(c) ==
    /\ c.event.RoomID \in DOMAIN c.table
    /\ c.table[c.event.RoomID].ID = c.event.RoomID
    /\ KeyOf(c.event) \in DOMAIN c.table[c.event.RoomID].State
    /\ c.table[c.event.RoomID].State[KeyOf(c.event)] = c.event

\* C13: whenever a listener is invoked for a state-list event e of a joined
\* or invited room R, e carries RoomID = R, the table has a Room for R and
\* that Room's State holds e under (e.Type, e.StateKey).
MergedBeforeDispatched ==
    (HasReduced /\ ~sent.isNil) =>
        \A i \in DOMAIN calls :
            /\ calls[i].event.RoomID \in AdmittedRooms
            /\ ForStateListEvent(calls[i]) => FoundMerged(calls[i])

\* a call has returned that created a room and invoked listeners for two
\* state events with different pairs, of a joined or an invited room
MergedBeforeDispatchedWitness ==
    /\ HasReduced
    /\ Len(calls) = 2
    /\ ForStateListEvent(calls[1])
    /\ ForStateListEvent(calls[2])
    /\ KeyOf(calls[1].event) # KeyOf(calls[2].event)
    /\ calls[1].event.RoomID \notin DOMAIN before

---------------------------------------------------------------------------
(* C14 *)

\* the call record c was made for an event of the timeline of a joined room
ForTimelineEvent(c) ==
    \E i \in DOMAIN Admitted(c.event.RoomID) :
        /\ Admitted(c.event.RoomID)[i].list = "timeline"
        /\ Admitted(c.event.RoomID)[i].event = c.event

\* the state-list events the response has for room r, stamped
StateListEvents(r) ==
    {Admitted(r)[i].event :
        i \in {j \in DOMAIN Admitted(r) : Admitted(r)[j].list # "timeline"}}

\* C14: the timeline of a joined room merges nothing. All callbacks invoked
\* for timeline events of the room find the same table; when the room is not
\* invited as well, that table has the room as the call leaves it; and after
\* the call every State entry is what it was before the call or an event of
\* a state list, under the pairs of the state lists only, even when a
\* timeline event carries a state key.
TimelineMergesNothing ==
    (HasReduced /\ ~sent.isNil) =>
        /\ \A i, j \in DOMAIN calls :
              (/\ ForTimelineEvent(calls[i])
               /\ ForTimelineEvent(calls[j])
               /\ calls[i].event.RoomID = calls[j].event.RoomID)
                 => calls[i].table = calls[j].table
        /\ \A i \in DOMAIN calls :
              (/\ ForTimelineEvent(calls[i])
               /\ calls[i].event.RoomID \notin DOMAIN res.Rooms.Invite)
                 => Rooms[calls[i].event.RoomID] = calls[i].table[calls[i].event.RoomID]
        /\ \A r \in DOMAIN Rooms :
              \A k \in DOMAIN Rooms[r].State :
                  \/ k \in DOMAIN StateBefore(r) /\ Rooms[r].State[k] = StateBefore(r)[k]
                  \/ /\ r \in AdmittedRooms
                     /\ Rooms[r].State[k] \in StateListEvents(r)
                     /\ k \in {KeyOf(e) : e \in StateListEvents(r)}

\* a call has returned nil for a joined room with a state event and a
\* timeline event that carries a state key and was dispatched, and State has
\* nothing under the pair of the timeline event
TimelineMergesNothingWitness ==
    /\ HasReduced
    /\ err.isNil
    /\ \E r \in DOMAIN res.Rooms.Join :
          /\ res.Rooms.Join[r].State = <<NameA>>
          /\ res.Rooms.Join[r].Timeline = <<SelfLeave>>
          /\ \E i \in DOMAIN calls : calls[i].event = Stamp(SelfLeave, r)
          /\ KeyOf(SelfLeave) \notin DOMAIN Rooms[r].State

---------------------------------------------------------------------------
(* C15 *)

\* the rooms of the response as sent that the filter removes
Suppressed ==
    {r \in DOMAIN sent.Rooms.Join : SomeSelfMembershipIsJoin(sent.Rooms.Join[r].Timeline)}

\* after a call with since # "" that returned nil, the table has the rooms it
\* had and the joined and invited rooms of the response that are not removed
KeysAreOldAndAdmitted ==
    (HasReduced /\ ~sent.isNil /\ err.isNil) =>
        DOMAIN Rooms = DOMAIN before
                         \cup (DOMAIN sent.Rooms.Join \ Suppressed)
                         \cup (DOMAIN sent.Rooms.Invite \ Suppressed)

\* a step keeps every room, with its id and with every pair its State has
RoomsStay ==
    \A r \in DOMAIN Rooms :
        /\ r \in DOMAIN Rooms'
        /\ Rooms'[r].ID = Rooms[r].ID
        /\ DOMAIN Rooms[r].State \subseteq DOMAIN Rooms'[r].State

\* C15: no call of ProcessResponse or OnEventType, faulting and first-sync
\* calls included, removes a room from the table or puts a new Room in the
\* place of a known one; after a fault-free call with since # "" the rooms
\* of the table are those it had plus the joined rooms that were not removed
\* and the invited rooms that were left, rooms with empty lists included.
RoomTableOnlyGrows == []KeysAreOldAndAdmitted /\ [][RoomsStay]_vars

\* a call has returned nil that removed one room, added another room that
\* came with empty lists, and kept a room that had state
RoomTableWitness ==
    /\ HasReduced
    /\ err.isNil
    /\ Suppressed # {}
    /\ \E r \in DOMAIN sent.Rooms.Join \ Suppressed :
          /\ sent.Rooms.Join[r] = [State |-> <<>>, Timeline |-> <<>>]
          /\ r \notin DOMAIN sent.Rooms.Invite
          /\ r \notin DOMAIN before
          /\ r \in DOMAIN Rooms
    /\ \E r \in DOMAIN before : before[r].State # <<>> /\ r \in Suppressed

---------------------------------------------------------------------------
(* C16 *)

\* a self-membership event whose content has no "membership" entry, or one
\* that is not a string
IsOddMembership(e) == IsSelfMember(e) /\ e.Content.membership[1] # "string"

\* a timeline without its events of that kind
WithoutOdd(timeline) == SelectSeq(timeline, LAMBDA e : ~IsOddMembership(e))

\* C16: a self-membership event without a string "membership" is no fault
\* and decides nothing: the call returns, with an error only when a callback
\* panicked; the room is removed exactly when its timeline without such
\* events would have it removed; and a room that stays is processed as any
\* other, the event itself being dispatched to the membership listeners.
OddMembershipIsSkipped ==
    /\ phase = "crashed" => sent.isNil
    /\ (HasReduced /\ ~sent.isNil) =>
          /\ ~err.isNil => (calls # <<>> /\ calls[Len(calls)].panicked)
          /\ \A r \in DOMAIN sent.Rooms.Join :
                /\ Removed(r) <=>
                      SomeSelfMembershipIsJoin(WithoutOdd(sent.Rooms.Join[r].Timeline))
                /\ ~Removed(r) =>
                      /\ r \in DOMAIN Rooms
                      /\ err.isNil =>
                            \A i \in DOMAIN sent.Rooms.Join[r].Timeline :
                                LET e == sent.Rooms.Join[r].Timeline[i]
                                IN  Heard(e) =>
                                      \E j \in DOMAIN calls : calls[j].event = Stamp(e, r)

\* a call has returned nil for a room that was not known, whose timeline has
\* a self-membership event with a number for "membership" and one with no
\* "membership", both dispatched
OddMembershipWitness ==
    /\ HasReduced
    /\ err.isNil
    /\ \E r \in DOMAIN sent.Rooms.Join :
          /\ sent.Rooms.Join[r].Timeline = <<SelfBare, SelfOdd>>
          /\ r \notin DOMAIN before
          /\ r \in DOMAIN Rooms
          /\ Len(calls) >= 2
          /\ calls[1].event = Stamp(SelfBare, r)
          /\ calls[Len(calls)].event = Stamp(SelfOdd, r)

---------------------------------------------------------------------------
(* C17 *)

\* C17: in every state, an event that the State of a room holds under the
\* pair (t, k) has Type t and StateKey k and carries the id of that room; a
\* response that merges events with different pairs into one room leaves
\* each pair with its own event.
StateIsKeyedByItsEvents ==
    \A r \in DOMAIN Rooms :
        /\ Rooms[r].ID = r
        /\ \A k \in DOMAIN Rooms[r].State :
              /\ KeyOf(Rooms[r].State[k]) = k
              /\ Rooms[r].State[k].RoomID = r

---------------------------------------------------------------------------
(* C18 *)

\* table a is part of table b: b has the rooms of a, each with the pairs it
\* has in a
IsPartOf(a, b) ==
    \A r \in DOMAIN a :
        /\ r \in DOMAIN b
        /\ DOMAIN a[r].State \subseteq DOMAIN b[r].State

\* C18: a call that returns an error because a callback panicked on event e
\* takes nothing back: the table is the one the panicking callback found,
\* which has every room and pair that was there before the call or at an
\* earlier invocation; when e is a state-list event State holds e under its
\* pair; and nothing after e was merged or dispatched.
FaultKeepsWhatWasDone ==
    (HasReturned /\ ~err.isNil) =>
        /\ calls # <<>>
        /\ calls[Len(calls)].panicked
        /\ Rooms = calls[Len(calls)].table
        /\ IsPartOf(before, Rooms)
        /\ \A i \in DOMAIN calls :
              /\ IsPartOf(calls[i].table, Rooms)
              /\ ForStateListEvent(calls[i]) =>
                    KeyOf(calls[i].event) \in DOMAIN Rooms[calls[i].event.RoomID].State
        /\ ForStateListEvent(calls[Len(calls)]) =>
              LET e == calls[Len(calls)].event
              IN  Rooms[e.RoomID].State[KeyOf(e)] = e

\* a call has returned an error from the second callback of the first event
\* of an invited room that was not known: the room is in the table with that
\* event, and without the second event of the list
FaultKeepsWitness ==
    /\ HasReduced
    /\ ~err.isNil
    /\ Len(calls) = 2
    /\ \E r \in DOMAIN res.Rooms.Invite :
          /\ r \notin DOMAIN before
          /\ Len(res.Rooms.Invite[r].State) = 2
          /\ calls[2].event = Stamp(res.Rooms.Invite[r].State[1], r)
          /\ DOMAIN Rooms[r].State = {KeyOf(res.Rooms.Invite[r].State[1])}
          /\ KeyOf(res.Rooms.Invite[r].State[2]) # KeyOf(res.Rooms.Invite[r].State[1])

---------------------------------------------------------------------------
(* C19 *)

\* room r of the response as sent is not joined, or is joined with a
\* timeline that has no self join
NoSelfJoinInTimeline(r) ==
    r \in DOMAIN sent.Rooms.Join =>
        ~SomeSelfMembershipIsJoin(sent.Rooms.Join[r].Timeline)

\* every state-list event that was sent for room r has its pair in State,
\* and its callbacks, if it has any, found it merged
AllStateMergedAndDispatched(r) ==
    LET sentState ==
            (IF r \in DOMAIN sent.Rooms.Join THEN sent.Rooms.Join[r].State ELSE <<>>)
            \o (IF r \in DOMAIN sent.Rooms.Invite
                 THEN sent.Rooms.Invite[r].State ELSE <<>>)
    IN  /\ r \in DOMAIN Rooms
        /\ \A i \in DOMAIN sentState :
              /\ KeyOf(sentState[i]) \in DOMAIN Rooms[r].State
              /\ Heard(sentState[i]) =>
                    \E j \in DOMAIN calls :
                        /\ calls[j].event = Stamp(sentState[i], r)
                        /\ FoundMerged(calls[j])

\* C19: only the timeline of a joined room decides. A room that is invited
\* and not joined, and a joined room whose timeline has no self join, stay
\* in the response as they were sent, whatever their state lists hold, a
\* self join included; when the call returns nil all their state events are
\* merged and dispatched.
OnlyTimelinesSuppress ==
    (HasReduced /\ ~sent.isNil) =>
        \A r \in DOMAIN sent.Rooms.Join \cup DOMAIN sent.Rooms.Invite :
            NoSelfJoinInTimeline(r) =>
                /\ r \in DOMAIN sent.Rooms.Join =>
                      (r \in DOMAIN res.Rooms.Join
                         /\ res.Rooms.Join[r] = sent.Rooms.Join[r])
                /\ r \in DOMAIN sent.Rooms.Invite =>
                      (r \in DOMAIN res.Rooms.Invite
                         /\ res.Rooms.Invite[r] = sent.Rooms.Invite[r])
                /\ err.isNil => AllStateMergedAndDispatched(r)

\* a call has returned nil for a room that is joined and invited, with a
\* self join in both state lists and none in the timeline, and the self
\* join was dispatched twice
SelfJoinInStateWitness ==
    /\ HasReduced
    /\ err.isNil
    /\ \E r \in DOMAIN sent.Rooms.Join \cap DOMAIN sent.Rooms.Invite :
          /\ sent.Rooms.Join[r] = [State |-> <<SelfJoin>>, Timeline |-> <<>>]
          /\ sent.Rooms.Invite[r] = [State |-> <<SelfJoin>>]
          /\ Len(calls) = 2
          /\ calls[1].event = Stamp(SelfJoin, r)
          /\ calls[2].event = Stamp(SelfJoin, r)

\* a call has returned nil for a room that is invited and not joined, with a
\* self join in its state list that was merged and dispatched
InvitedOnlyWitness ==
    /\ HasReduced
    /\ err.isNil
    /\ \E r \in DOMAIN sent.Rooms.Invite \ DOMAIN sent.Rooms.Join :
          /\ sent.Rooms.Invite[r].State = <<NameA, SelfJoin>>
          /\ KeyOf(SelfJoin) \in DOMAIN Rooms[r].State
          /\ \E j \in DOMAIN calls : calls[j].event = Stamp(SelfJoin, r)

---------------------------------------------------------------------------
(* C20 *)

\* the events that were sent for room r, stamped, in the order of processing
SentFor(r) ==
    (IF r \in DOMAIN sent.Rooms.Join
     THEN StampAll(sent.Rooms.Join[r].State, r, "state")
          \o StampAll(sent.Rooms.Join[r].Timeline, r, "timeline")
     ELSE <<>>)
    \o (IF r \in DOMAIN sent.Rooms.Invite
        THEN StampAll(sent.Rooms.Invite[r].State, r, "invite")
        ELSE <<>>)

\* the invocations that the events sent for room r ask for, by themselves
CallsAskedFor(r) ==
    Concat([i \in DOMAIN SentFor(r) |->
              [j \in DOMAIN ListenersFor(SentFor(r)[i].event.Type) |->
                 [fn |-> ListenersFor(SentFor(r)[i].event.Type)[j],
                  event |-> SentFor(r)[i].event]]])

\* the pairs that the state lists sent for room r merge, by themselves
PairsAskedFor(r) ==
    {KeyOf(SentFor(r)[i].event) :
        i \in {j \in DOMAIN SentFor(r) : SentFor(r)[j].list # "timeline"}}

\* C20: removing a room from the response touches no other room. The filter
\* leaves every other room id in the joined and in the invited rooms, with
\* what was sent for it; and for every room that is not removed, the Room
\* created, the pairs merged and the invocations made are what the events
\* sent for that room ask for by themselves, whether or not other rooms of
\* the response were removed.
RemovalTouchesNoOtherRoom ==
    (HasReduced /\ ~sent.isNil) =>
        /\ res.Rooms.Join = Restrict(sent.Rooms.Join, DOMAIN sent.Rooms.Join \ Suppressed)
        /\ res.Rooms.Invite
             = Restrict(sent.Rooms.Invite, DOMAIN sent.Rooms.Invite \ Suppressed)
        /\ \A r \in (DOMAIN sent.Rooms.Join \cup DOMAIN sent.Rooms.Invite) \ Suppressed :
              LET made == [i \in DOMAIN CallsOf(r) |->
                             [fn |-> CallsOf(r)[i].fn, event |-> CallsOf(r)[i].event]]
              IN  /\ IsPrefix(made, CallsAskedFor(r))
                  /\ err.isNil =>
                        /\ made = CallsAskedFor(r)
                        /\ r \in DOMAIN Rooms
                        /\ DOMAIN Rooms[r].State
                             = DOMAIN StateBefore(r) \cup PairsAskedFor(r)
                        /\ \A k \in DOMAIN StateBefore(r) \ PairsAskedFor(r) :
                              Rooms[r].State[k] = StateBefore(r)[k]

\* a call has returned nil for a response with a room that was removed, from
\* the joined and the invited rooms, and another joined room, not known
\* before, whose state and timeline events were dispatched
RemovalWitness ==
    /\ HasReduced
    /\ err.isNil
    /\ \E r \in Suppressed \cap DOMAIN sent.Rooms.Invite :
          /\ sent.Rooms.Invite[r].State # <<>>
          /\ \E o \in DOMAIN res.Rooms.Join :
                /\ o # r
                /\ o \notin DOMAIN before
                /\ res.Rooms.Join[o] = [State |-> <<NameA>>, Timeline |-> <<NameB>>]
                /\ Len(CallsOf(o)) = 2
                /\ CallsOf(r) = <<>>

====
